---- MODULE Spec2Model ----
(***************************************************************************)
(* A model of the Dispatcharr integration for Home Assistant:              *)
(*   custom_components/dispatcharr_sensor/__init__.py  (guide-sourced      *)
(*       coordinator: channel_map built from the XMLTV document, streams   *)
(*       matched to channels by name)                                      *)
(*   custom_components/dispatcharr_sensor/sensor.py    (registry-sourced   *)
(*       coordinator: channel_details built from the channel list,         *)
(*       streams matched by uuid)                                          *)
(* Both coordinator classes are called DispatcharrDataUpdateCoordinator;   *)
(* definitions that model the sensor.py class carry the suffix _sensor.    *)
(* Every handler (setup, tick, directory build) is one atomic action: the  *)
(* code runs one coroutine at a time and ticks never overlap.  The         *)
(* backend's answers are the nondeterministic inputs of the actions.       *)
(***************************************************************************)
EXTENDS Integers, Sequences, FiniteSets, TLC

VARIABLES
    variant,          \* which coordinator class this deployment runs
    phase,            \* "new" | "ready" | "not_ready" | pure-function phases
    access_token,     \* self._access_token (NoToken stands for None / "")
    channel_map,      \* __init__.py: self.channel_map (insertion-ordered dict)
    channel_details,  \* sensor.py:   self.channel_details
    data,             \* DataUpdateCoordinator.data, the published output
    last,             \* what the last handler did: outcome, network log, inputs
    probe             \* inputs and results of the functions checked on their own

vars == <<variant, phase, access_token, channel_map, channel_details, data, last, probe>>

----------------------------------------------------------------------------
(* Bounds of the model *)

MaxToken == 2         \* the token endpoint hands out tokens 1..MaxToken
MaxSessions == 2      \* longest session list of a status response
MaxChannels == 2      \* most channel entries of a directory source
MaxProgs == 3         \* most programme elements of a guide document (resolver)
MaxTime == 2          \* instants are 0..MaxTime
MaxNameLen == 4       \* longest core of a stream name (matcher)
MaxKeys == 3          \* most entries of a directory (matcher)
MaxAnswers == 3       \* answers the backend holds ready for one call (gateway)

NoToken == 0          \* Python None (or ""): "not self._access_token" holds
ClientError == 0      \* no HTTP status: the request raised aiohttp.ClientError

Tokens == 1..MaxToken

----------------------------------------------------------------------------
(* Python dicts keep insertion order: a dict is a sequence of <<key, value>> *)
(* pairs with distinct keys.                                                 *)

RECURSIVE DictIndex(_, _, _)
DictIndex(d, k, i) ==
    IF i > Len(d) THEN 0
    ELSE IF d[i][1] = k THEN i
    ELSE DictIndex(d, k, i + 1)

DictHas(d, k) == DictIndex(d, k, 1) # 0

DictGet(d, k) == d[DictIndex(d, k, 1)][2]

\* d[k] = v : an existing key keeps its position, a new key is appended
DictSet(d, k, v) ==
    IF DictHas(d, k)
    THEN [d EXCEPT ![DictIndex(d, k, 1)] = <<k, v>>]
    ELSE Append(d, <<k, v>>)

DictKeys(d) == {d[i][1] : i \in 1..Len(d)}

DictKeySeq(d) == [i \in 1..Len(d) |-> d[i][1]]

SeqsUpTo(S, n) == UNION {[1..k -> S] : k \in 0..n}

----------------------------------------------------------------------------
(* The backend's answers *)

\* POST /api/accounts/token/ : a transport error, a non-2xx status, or a 2xx
\* JSON body whose "access" field is a token or is missing
AuthReplies ==
    {[kind |-> "client_error", access |-> NoToken],
     [kind |-> "http_error", access |-> NoToken],
     [kind |-> "ok", access |-> NoToken]}
    \cup {[kind |-> "ok", access |-> t] : t \in Tokens}

\* an authenticated request: a transport error or an HTTP status
Statuses == {200, 401, 404}

Replies == {ClientError} \cup Statuses

Urls == {"/proxy/ts/status", "/output/epg", "/api/channels/channels/"}

\* what the backend will answer to one _api_request call: the answers of the
\* token endpoint and of the resource, in the order they are asked for
Scripts ==
    {[auth |-> a, resp |-> r] : a \in SeqsUpTo(AuthReplies, 2), r \in SeqsUpTo(Replies, 2)}

\* the network operations a call issues, as the backend sees them: the
\* bearer token sent, the answer, and the token an exchange handed out
PostEvent(reply) ==
    [op |-> "POST", url |-> "/api/accounts/token/", bearer |-> NoToken,
     reply |-> IF reply.kind = "ok" THEN "200" ELSE reply.kind,
     access |-> reply.access]

GetEvent(url, bearer, reply) ==
    [op |-> "GET", url |-> url, bearer |-> bearer,
     reply |-> IF reply = ClientError THEN "client_error" ELSE ToString(reply),
     access |-> NoToken]

----------------------------------------------------------------------------
(* Auth session and HTTP gateway *)

\* _get_new_token dropping the stored token when the exchange fails with a
\* transport or HTTP-status error
_get_new_token_clears(token, reply) ==
    IF reply.kind \in {"client_error", "http_error"}
    THEN [token |-> NoToken, exc |-> "ConfigEntryNotReady"]
    ELSE [token |-> reply.access,
          exc |-> IF reply.access = NoToken THEN "ConfigEntryNotReady" ELSE "none"]

\* _get_new_token: the stored token and the exception after the exchange
\* answered `reply`.  raise_for_status and transport errors are
\* aiohttp.ClientError; a missing "access" raises after the assignment.
_get_new_token(token, reply) ==
    IF reply.kind \in {"client_error", "http_error"}
    THEN [token |-> token, exc |-> "ConfigEntryNotReady"]
    ELSE [token |-> reply.access,
          exc |-> IF reply.access = NoToken THEN "ConfigEntryNotReady" ELSE "none"]

\* raise_for_status() on a response
RaisesForStatus(status) == status >= 400

\* "epg/grid" in url: none of the URLs the coordinators request contains it
EpgGridIn(url) == FALSE

\* The tail of _api_request once the (possibly retried) response is known.
\* sensor.py answers {} for a 404 on the EPG-grid path; __init__.py has no
\* such case.
Finish(cls, token, url, reply, log) ==
    IF reply = ClientError
    THEN [token |-> token, exc |-> "UpdateFailed", result |-> "none", log |-> log]
    ELSE IF RaisesForStatus(reply)
    THEN IF cls = "sensor" /\ EpgGridIn(url) /\ reply = 404
         THEN [token |-> token, exc |-> "none", result |-> "empty", log |-> log]
         ELSE [token |-> token, exc |-> "UpdateFailed", result |-> "none", log |-> log]
    ELSE [token |-> token, exc |-> "none", result |-> "body", log |-> log]

\* Request with the retry forgotten: after the re-authentication the first
\* (401) response is used
Request_no_retry(cls, token, url, script, used, log) ==
    IF Len(script.resp) < 1
    THEN [token |-> token, exc |-> "starved", result |-> "none", log |-> log]
    ELSE
    LET r1 == script.resp[1]
        log1 == Append(log, GetEvent(url, token, r1))
    IN  IF r1 # 401
        THEN Finish(cls, token, url, r1, log1)
        ELSE IF Len(script.auth) < used + 1
        THEN [token |-> token, exc |-> "starved", result |-> "none", log |-> log1]
        ELSE
        LET a == script.auth[used + 1]
            t == _get_new_token(token, a)
            log2 == Append(log1, PostEvent(a))
        IN  IF t.exc # "none"
            THEN [token |-> t.token, exc |-> t.exc, result |-> "none", log |-> log2]
            ELSE Finish(cls, t.token, url, r1, log2)

\* Request retrying once more: a retry answered 401 is followed by a third
\* request
Request_again(cls, token, url, script, used, log) ==
    IF Len(script.resp) < 1
    THEN [token |-> token, exc |-> "starved", result |-> "none", log |-> log]
    ELSE
    LET r1 == script.resp[1]
        log1 == Append(log, GetEvent(url, token, r1))
    IN  IF r1 # 401
        THEN Finish(cls, token, url, r1, log1)
        ELSE IF Len(script.auth) < used + 1
        THEN [token |-> token, exc |-> "starved", result |-> "none", log |-> log1]
        ELSE
        LET a == script.auth[used + 1]
            t == _get_new_token(token, a)
            log2 == Append(log1, PostEvent(a))
        IN  IF t.exc # "none"
            THEN [token |-> t.token, exc |-> t.exc, result |-> "none", log |-> log2]
            ELSE IF Len(script.resp) < 2
            THEN [token |-> t.token, exc |-> "starved", result |-> "none", log |-> log2]
            ELSE LET r2 == script.resp[2]
                     log3 == Append(log2, GetEvent(url, t.token, r2))
                 IN  IF r2 # 401 \/ Len(script.resp) < 3
                     THEN Finish(cls, t.token, url, r2, log3)
                     ELSE Finish(cls, t.token, url, script.resp[3],
                                 Append(log3, GetEvent(url, t.token, script.resp[3])))

\* Request without the assignment of the new token to the Authorization
\* header: the retry carries the token of the first request
Request_stale(cls, token, url, script, used, log) ==
    IF Len(script.resp) < 1
    THEN [token |-> token, exc |-> "starved", result |-> "none", log |-> log]
    ELSE
    LET r1 == script.resp[1]
        log1 == Append(log, GetEvent(url, token, r1))
    IN  IF r1 # 401
        THEN Finish(cls, token, url, r1, log1)
        ELSE IF Len(script.auth) < used + 1
        THEN [token |-> token, exc |-> "starved", result |-> "none", log |-> log1]
        ELSE
        LET a == script.auth[used + 1]
            t == _get_new_token(token, a)
            log2 == Append(log1, PostEvent(a))
        IN  IF t.exc # "none"
            THEN [token |-> t.token, exc |-> t.exc, result |-> "none", log |-> log2]
            ELSE IF Len(script.resp) < 2
            THEN [token |-> t.token, exc |-> "starved", result |-> "none", log |-> log2]
            ELSE LET r2 == script.resp[2]
                 IN  Finish(cls, t.token, url, r2,
                            Append(log2, GetEvent(url, token, r2)))

\* The part of _api_request after the lazy authentication: the request, and
\* on a 401 one _get_new_token and one more request with the new token.
\* `used` counts the token-endpoint answers already consumed.
Request(cls, token, url, script, used, log) ==
    IF Len(script.resp) < 1
    THEN [token |-> token, exc |-> "starved", result |-> "none", log |-> log]
    ELSE
    LET r1 == script.resp[1]
        log1 == Append(log, GetEvent(url, token, r1))
    IN  IF r1 # 401
        THEN Finish(cls, token, url, r1, log1)
        ELSE IF Len(script.auth) < used + 1
        THEN [token |-> token, exc |-> "starved", result |-> "none", log |-> log1]
        ELSE
        LET a == script.auth[used + 1]
            t == _get_new_token(token, a)
            log2 == Append(log1, PostEvent(a))
        IN  IF t.exc # "none"
            THEN [token |-> t.token, exc |-> t.exc, result |-> "none", log |-> log2]
            ELSE IF Len(script.resp) < 2
            THEN [token |-> t.token, exc |-> "starved", result |-> "none", log |-> log2]
            ELSE LET r2 == script.resp[2]
                 IN  Finish(cls, t.token, url, r2,
                            Append(log2, GetEvent(url, t.token, r2)))

\* _api_request without "if not self._access_token": every call starts with
\* a credential exchange
_api_request_eager(cls, token, url, script) ==
    IF Len(script.auth) < 1
    THEN [token |-> token, exc |-> "starved", result |-> "none", log |-> <<>>]
    ELSE LET a == script.auth[1]
             t == _get_new_token(token, a)
         IN  IF t.exc # "none"
             THEN [token |-> t.token, exc |-> t.exc, result |-> "none",
                   log |-> <<PostEvent(a)>>]
             ELSE Request(cls, t.token, url, script, 1, <<PostEvent(a)>>)

\* _api_request(method, url): the stored token afterwards, the exception
\* raised ("none": a result was returned), and the network operations issued
_api_request(cls, token, url, script) ==
    IF token = NoToken
    THEN IF Len(script.auth) < 1
         THEN [token |-> token, exc |-> "starved", result |-> "none", log |-> <<>>]
         ELSE LET a == script.auth[1]
                  t == _get_new_token(token, a)
              IN  IF t.exc # "none"
                  THEN [token |-> t.token, exc |-> t.exc, result |-> "none",
                        log |-> <<PostEvent(a)>>]
                  ELSE Request(cls, t.token, url, script, 1, <<PostEvent(a)>>)
    ELSE Request(cls, token, url, script, 0, <<>>)

\* The runs of one _api_request call: every script the call consumes exactly
Consumed(run, script) ==
    /\ run.exc # "starved"
    /\ Len(run.log) = Len(script.auth) + Len(script.resp)

ApiRuns ==
    [cls \in {"init", "sensor"}, token \in 0..MaxToken, url \in Urls |->
        {_api_request(cls, token, url, s) : s \in
            {x \in Scripts : Consumed(_api_request(cls, token, url, x), x)}}]

----------------------------------------------------------------------------
(* Text: a string is a sequence of one-character strings *)

UpperChars == <<"A", "B", "D", "H", "X">>
LowerChars == <<"a", "b", "d", "h", "x">>
DigitChars == {"2"}

IsUpper(c) == \E i \in 1..Len(UpperChars) : UpperChars[i] = c
IsLower(c) == \E i \in 1..Len(LowerChars) : LowerChars[i] = c
IsAlnum(c) == IsUpper(c) \/ IsLower(c) \/ c \in DigitChars
IsWord(c) == IsAlnum(c) \/ c = "_"          \* regex \w
IsSpace(c) == c = " "                        \* regex \s

Lower(c) ==
    IF IsUpper(c)
    THEN LowerChars[CHOOSE i \in 1..Len(UpperChars) : UpperChars[i] = c]
    ELSE c

Unknown == <<"u", "n", "k", "n", "o", "w", "n">>

\* python-slugify with separator "_": lower-case, every run of characters
\* that are not letters or digits becomes one separator, separators at the
\* ends are dropped
RECURSIVE SlugFrom(_, _, _, _)
SlugFrom(text, i, acc, pending) ==
    IF i > Len(text) THEN acc
    ELSE IF IsAlnum(text[i])
    THEN SlugFrom(text, i + 1,
                  (IF pending /\ acc # <<>> THEN Append(acc, "_") ELSE acc)
                      \o <<Lower(text[i])>>,
                  FALSE)
    ELSE SlugFrom(text, i + 1, acc, TRUE)

\* homeassistant.util.slugify: "" for an empty text, "unknown" for a text
\* that slugifies to nothing
slugify(text) ==
    IF text = <<>> THEN <<>>
    ELSE LET slug == SlugFrom(text, 1, <<>>, FALSE)
         IN  IF slug = <<>> THEN Unknown ELSE slug

\* the length of the longest prefix of s[i..] whose characters satisfy a class
RECURSIVE WordRun(_, _)
WordRun(s, i) == IF i <= Len(s) /\ IsWord(s[i]) THEN 1 + WordRun(s, i + 1) ELSE 0

RECURSIVE SpaceRun(_, _)
SpaceRun(s, i) == IF i <= Len(s) /\ IsSpace(s[i]) THEN 1 + SpaceRun(s, i + 1) ELSE 0

\* re.sub(r'^\w+:\s*', '', s): the end of the match at position 1, 0 if none
PrefixEnd(s) ==
    LET w == WordRun(s, 1)
    IN  IF w >= 1 /\ w + 1 <= Len(s) /\ s[w + 1] = ":"
        THEN w + 1 + SpaceRun(s, w + 2)
        ELSE 0

\* re.sub(r'\s+HD$', '', s, flags=IGNORECASE) on s[from..]: the leftmost
\* position at which whitespace followed by "HD" reaches the end, 0 if none
SuffixStart(s, from) ==
    LET n == Len(s)
        starts == {i \in from..n : /\ SpaceRun(s, i) >= 1
                                   /\ i + SpaceRun(s, i) + 1 = n
                                   /\ Lower(s[n - 1]) = "h"
                                   /\ Lower(s[n]) = "d"}
    IN  IF starts = {} THEN 0 ELSE CHOOSE i \in starts : \A j \in starts : i <= j

\* s without its first p characters and without s[q..] (q = 0: no suffix)
Cut(s, p, q) == SubSeq(s, p + 1, IF q = 0 THEN Len(s) ELSE q - 1)

CutSuffix(s, p) == Cut(s, p, SuffixStart(s, p + 1))

\* re.sub(r'^\w+:\s*|\s+HD$', '', stream_name, flags=re.IGNORECASE)
StripName(s) == CutSuffix(s, PrefixEnd(s))

\* key in name, for strings
IsSubstring(key, name) ==
    \E i \in 1..(Len(name) - Len(key) + 1) : SubSeq(name, i, i + Len(key) - 1) = key

\* sorted(matches, key=lambda item: len(item[0]), reverse=True): a stable
\* sort, so entries of equal key length keep their order
RECURSIVE InsertByLen(_, _)
InsertByLen(sorted, item) ==
    IF sorted = <<>> THEN <<item>>
    ELSE IF Len(Head(sorted)[1]) >= Len(item[1])
    THEN <<Head(sorted)>> \o InsertByLen(Tail(sorted), item)
    ELSE <<item>> \o sorted

RECURSIVE SortedByLenDesc(_)
SortedByLenDesc(items) ==
    IF items = <<>> THEN <<>>
    ELSE InsertByLen(SortedByLenDesc(SubSeq(items, 1, Len(items) - 1)),
                     items[Len(items)])

NoDetails == [id |-> "", name |-> <<>>, logo_url |-> ""]

\* BestMatch without the sort: the first of the keys contained in the name
BestMatch_first(possible_matches) ==
    IF possible_matches # <<>>
    THEN possible_matches[1][2]
    ELSE NoDetails

\* steps 2 and 3 of the matcher: the longest of the keys contained in the name
BestMatch(possible_matches) ==
    IF possible_matches # <<>>
    THEN SortedByLenDesc(possible_matches)[1][2]
    ELSE NoDetails

\* the matcher on the simplified name: an exact match, else the best
\* substring match
MatchSimpleName(cmap, simple_stream_name) ==
    IF DictHas(cmap, simple_stream_name)
    THEN DictGet(cmap, simple_stream_name)
    ELSE BestMatch(SelectSeq(cmap,
                     LAMBDA item : IsSubstring(item[1], simple_stream_name)))

\* _get_channel_details_from_stream_name: the matched channel record, or
\* NoDetails (Python None)
_get_channel_details_from_stream_name(cmap, stream_name) ==
    IF stream_name = <<>> THEN NoDetails
    ELSE MatchSimpleName(cmap, slugify(StripName(stream_name)))

----------------------------------------------------------------------------
(* Directory builds *)

\* MapChannels without "if display_name and channel_id": every element is
\* indexed
RECURSIVE MapChannels_unchecked(_, _)
MapChannels_unchecked(channels, cmap) ==
    IF channels = <<>> THEN cmap
    ELSE LET channel == Head(channels)
         IN  MapChannels_unchecked(Tail(channels),
                DictSet(cmap, slugify(channel.display_name),
                        [id |-> channel.id, name |-> channel.display_name,
                         logo_url |-> channel.icon]))

\* The loop of async_populate_channel_map_from_xml over the <channel>
\* elements: an element with a display name and an id is indexed by the slug
\* of its display name; a later element with the same slug replaces the record
RECURSIVE MapChannels(_, _)
MapChannels(channels, cmap) ==
    IF channels = <<>> THEN cmap
    ELSE LET channel == Head(channels)
         IN  MapChannels(Tail(channels),
                IF channel.display_name # <<>> /\ channel.id # ""
                THEN DictSet(cmap, slugify(channel.display_name),
                             [id |-> channel.id, name |-> channel.display_name,
                              logo_url |-> channel.icon])
                ELSE cmap)

\* PopulateFromXml without "self.channel_map = {}": the channels are added
\* to the directory held before
PopulateFromXml_merge(cmap, doc) ==
    IF ~doc.parsable
    THEN [channel_map |-> cmap, exc |-> "ConfigEntryNotReady"]
    ELSE LET built == MapChannels(doc.channels, cmap)
         IN  [channel_map |-> built,
              exc |-> IF built = <<>> THEN "ConfigEntryNotReady" ELSE "none"]

\* async_populate_channel_map_from_xml after the document was fetched:
\* ET.fromstring raises before self.channel_map is touched; the map is
\* emptied and refilled, and an empty result raises
PopulateFromXml(cmap, doc) ==
    IF ~doc.parsable
    THEN [channel_map |-> cmap, exc |-> "ConfigEntryNotReady"]
    ELSE LET built == MapChannels(doc.channels, <<>>)
         IN  [channel_map |-> built,
              exc |-> IF built = <<>> THEN "ConfigEntryNotReady" ELSE "none"]

\* async_populate_channel_map_from_xml: the fetch, then the build
async_populate_channel_map_from_xml(cmap, run, doc) ==
    IF run.exc = "UpdateFailed"
    THEN [channel_map |-> cmap, exc |-> "ConfigEntryNotReady"]
    ELSE IF run.exc # "none"
    THEN [channel_map |-> cmap, exc |-> run.exc]
    ELSE PopulateFromXml(cmap, doc)

\* {channel['uuid']: channel for channel in all_channels if 'uuid' in channel}
RECURSIVE ByUuid(_, _)
ByUuid(all_channels, details) ==
    IF all_channels = <<>> THEN details
    ELSE LET channel == Head(all_channels)
         IN  ByUuid(Tail(all_channels),
                    IF channel.uuid # "" THEN DictSet(details, channel.uuid, channel)
                    ELSE details)

\* async_populate_channel_details: a failed fetch propagates; a body that
\* is no list empties the directory and returns normally
async_populate_channel_details(details, run, body) ==
    IF run.exc # "none"
    THEN [channel_details |-> details, exc |-> run.exc]
    ELSE IF run.result = "body" /\ body.is_list
    THEN [channel_details |-> ByUuid(body.items, <<>>), exc |-> "none"]
    ELSE [channel_details |-> <<>>, exc |-> "none"]

----------------------------------------------------------------------------
(* EPG resolution *)

\* datetime.strptime(s, "%Y%m%d%H%M%S %z") as an instant: the local time
\* less the UTC offset
Instant(ts) == ts.local - ts.off

NoProgram == [title |-> 0, start_time |-> [local |-> 0, off |-> 0],
              end_time |-> [local |-> 0, off |-> 0]]

\* IsCurrent with the stop instant included
IsCurrent_closed(start_time, now, stop_time) == start_time <= now /\ now <= stop_time

\* start_time <= now < stop_time
IsCurrent(start_time, now, stop_time) == start_time <= now /\ now < stop_time

\* One programme element: "skip" (an attribute is missing, or strptime
\* raises ValueError), "current", or "other"
Examine(program, now) ==
    IF program.start.kind = "absent" \/ program.stop.kind = "absent" THEN "skip"
    ELSE IF program.start.kind = "malformed" \/ program.stop.kind = "malformed"
    THEN "skip"
    ELSE IF IsCurrent(Instant(program.start), now, Instant(program.stop))
    THEN "current"
    ELSE "other"

ProgramOf(program) ==
    [title |-> program.title,
     start_time |-> [local |-> program.start.local, off |-> program.start.off],
     end_time |-> [local |-> program.stop.local, off |-> program.stop.off]]

\* FirstCurrent leaving the loop at the first programme element it cannot
\* read
RECURSIVE FirstCurrent_stops(_, _, _)
FirstCurrent_stops(programmes, xmltv_id, now) ==
    IF programmes = <<>> THEN NoProgram
    ELSE IF Head(programmes).channel = xmltv_id
            /\ Examine(Head(programmes), now) = "current"
    THEN ProgramOf(Head(programmes))
    ELSE IF Head(programmes).channel = xmltv_id
            /\ Examine(Head(programmes), now) = "skip"
    THEN NoProgram
    ELSE FirstCurrent_stops(Tail(programmes), xmltv_id, now)

\* __init__.py: the loop over root.iterfind(".//programme[@channel=id]"),
\* which breaks at the first current programme
RECURSIVE FirstCurrent(_, _, _)
FirstCurrent(programmes, xmltv_id, now) ==
    IF programmes = <<>> THEN NoProgram
    ELSE IF Head(programmes).channel = xmltv_id
            /\ Examine(Head(programmes), now) = "current"
    THEN ProgramOf(Head(programmes))
    ELSE FirstCurrent(Tail(programmes), xmltv_id, now)

\* CurrentPrograms without "channel_id not in current_programs": a later
\* current programme replaces an earlier one
RECURSIVE CurrentPrograms_last_wins(_, _, _, _)
CurrentPrograms_last_wins(programmes, epg_ids, now, current_programs) ==
    IF programmes = <<>> THEN current_programs
    ELSE LET program == Head(programmes)
             channel_id == program.channel
         IN  CurrentPrograms_last_wins(Tail(programmes), epg_ids, now,
                IF /\ channel_id \in epg_ids
                   /\ Examine(program, now) = "current"
                THEN DictSet(current_programs, channel_id, ProgramOf(program))
                ELSE current_programs)

\* sensor.py: the loop of _get_current_programs_from_xml over
\* root.findall(".//programme"), filling current_programs
RECURSIVE CurrentPrograms(_, _, _, _)
CurrentPrograms(programmes, epg_ids, now, current_programs) ==
    IF programmes = <<>> THEN current_programs
    ELSE LET program == Head(programmes)
             channel_id == program.channel
         IN  CurrentPrograms(Tail(programmes), epg_ids, now,
                IF /\ channel_id \in epg_ids
                   /\ ~DictHas(current_programs, channel_id)
                   /\ Examine(program, now) = "current"
                THEN DictSet(current_programs, channel_id, ProgramOf(program))
                ELSE current_programs)

\* _get_current_programs_from_xml: no epg_ids answers {} without a fetch
\* (run is then the call that was not made); any exception of the fetch or
\* of the parse is caught and answers {}
_get_current_programs_from_xml(epg_ids, run, doc, now) ==
    IF epg_ids = {} THEN <<>>
    ELSE IF run.exc # "none" \/ ~doc.parsable THEN <<>>
    ELSE CurrentPrograms(doc.programmes, epg_ids, now, <<>>)

----------------------------------------------------------------------------
(* One tick: _async_update_data *)

NoneData == [is_none |-> TRUE, map |-> <<>>]        \* coordinator.data is None
DictData(d) == [is_none |-> FALSE, map |-> d]

\* a call that was not made
NoRun(token) == [token |-> token, exc |-> "none", result |-> "none", log |-> <<>>]

\* the record of one _api_request call: its URL, what it raised, and the
\* network operations it issued
Call(url, run) == [url |-> url, exc |-> run.exc, log |-> run.log]

StatusCall(run1) == <<Call("/proxy/ts/status", run1)>>

\* BothCalls of a tick that asks for the guide a second time for the merge
BothCalls_twice(run1, run2) ==
    StatusCall(run1) \o (IF run2.log = <<>> THEN <<>>
                         ELSE <<Call("/output/epg", run2), Call("/output/epg", run2)>>)

\* the calls of a tick that asked for the guide
BothCalls(run1, run2) ==
    StatusCall(run1) \o (IF run2.log = <<>> THEN <<>> ELSE <<Call("/output/epg", run2)>>)

NoDoc == [parsable |-> FALSE, channels |-> <<>>, programmes |-> <<>>]

\* HasActiveStreams with the early return forgotten
HasActiveStreams_always(active_streams) == TRUE

\* "if not active_streams: return {}" (both coordinators): the guide is
\* asked for only when the status response lists a session
HasActiveStreams(active_streams) == active_streams # <<>>

\* __init__.py, the body of the loop once the stream's details are known
EnrichWith(stream, details, programmes, now) ==
    IF details # NoDetails
    THEN [channel_id |-> stream.channel_id, stream_name |-> stream.stream_name,
          xmltv_id |-> details.id, channel_name |-> details.name,
          logo_url |-> details.logo_url,
          program |-> FirstCurrent(programmes, details.id, now)]
    ELSE [channel_id |-> stream.channel_id, stream_name |-> stream.stream_name,
          xmltv_id |-> "", channel_name |-> <<>>, logo_url |-> "",
          program |-> NoProgram]

\* __init__.py, one stream of the loop: the enriched record
Enrich(cmap, stream, programmes, now) ==
    EnrichWith(stream, _get_channel_details_from_stream_name(cmap, stream.stream_name),
               programmes, now)

\* __init__.py, the loop over active_streams: a stream without channel_id
\* or stream_name is skipped
RECURSIVE EnrichAll(_, _, _, _, _)
EnrichAll(cmap, active_streams, programmes, now, enriched_streams) ==
    IF active_streams = <<>> THEN enriched_streams
    ELSE LET stream == Head(active_streams)
         IN  EnrichAll(cmap, Tail(active_streams), programmes, now,
                IF stream.channel_id = "" \/ stream.stream_name = <<>>
                THEN enriched_streams
                ELSE DictSet(enriched_streams, stream.channel_id,
                             Enrich(cmap, stream, programmes, now)))

\* __init__.py _async_update_data.  run1 and run2 are the status and the
\* guide call (run2 is NoRun when the guide is not asked for); an
\* unparsable guide returns self.data
_async_update_data(cmap, prev, run1, active_streams, run2, doc, now) ==
    IF run1.exc # "none"
    THEN [exc |-> run1.exc, data |-> prev, token |-> run1.token, calls |-> StatusCall(run1),
          guide |-> "not_fetched"]
    ELSE IF ~HasActiveStreams(active_streams)
    THEN [exc |-> "none", data |-> DictData(<<>>), token |-> run1.token,
          calls |-> StatusCall(run1), guide |-> "not_fetched"]
    ELSE IF run2.exc # "none"
    THEN [exc |-> run2.exc, data |-> prev, token |-> run2.token,
          calls |-> BothCalls(run1, run2), guide |-> "failed"]
    ELSE IF ~doc.parsable
    THEN [exc |-> "none", data |-> prev, token |-> run2.token,
          calls |-> BothCalls(run1, run2), guide |-> "unparsable"]
    ELSE [exc |-> "none",
          data |-> DictData(EnrichAll(cmap, active_streams, doc.programmes, now, <<>>)),
          token |-> run2.token, calls |-> BothCalls(run1, run2), guide |-> "parsed"]

NoChannel == [uuid |-> "", logo_id |-> "", tvg_id |-> ""]

\* self.channel_details.get(stream_id): NoChannel stands for None
DetailsGet(details, stream_id) ==
    IF DictHas(details, stream_id) THEN DictGet(details, stream_id) ELSE NoChannel

\* sensor.py: stream['channel_id'] raises KeyError for a stream without it
MissingChannelId(active_streams) ==
    \E i \in 1..Len(active_streams) : active_streams[i].channel_id = ""

\* sensor.py: active_epg_ids, the tvg_id of every stream known to the registry
ActiveEpgIds(details, active_streams) ==
    {d.tvg_id : d \in {x \in {DetailsGet(details, active_streams[i].channel_id) :
                                  i \in 1..Len(active_streams)} :
                          x # NoChannel /\ x.tvg_id # ""}}

LogoUrl(logo_id) == "/api/channels/logos/" \o logo_id \o "/cache/"

\* sensor.py, the body of the merge loop once the stream's details are known
EnrichWith_sensor(stream, d, current_programs_map) ==
    [channel_id |-> stream.channel_id, stream_name |-> stream.stream_name,
     xmltv_id |-> "", channel_name |-> <<>>,
     logo_url |-> IF d # NoChannel /\ d.logo_id # "" THEN LogoUrl(d.logo_id) ELSE "",
     program |-> IF d # NoChannel /\ d.tvg_id # ""
                    /\ DictHas(current_programs_map, d.tvg_id)
                 THEN DictGet(current_programs_map, d.tvg_id)
                 ELSE NoProgram]

\* sensor.py, one stream of the merge loop
Enrich_sensor(details, stream, current_programs_map) ==
    EnrichWith_sensor(stream, DetailsGet(details, stream.channel_id),
                      current_programs_map)

RECURSIVE EnrichAll_sensor(_, _, _, _)
EnrichAll_sensor(details, active_streams, current_programs_map, enriched_streams) ==
    IF active_streams = <<>> THEN enriched_streams
    ELSE EnrichAll_sensor(details, Tail(active_streams), current_programs_map,
            DictSet(enriched_streams, Head(active_streams).channel_id,
                    Enrich_sensor(details, Head(active_streams), current_programs_map)))

\* sensor.py: the guide is asked for when some active stream has a tvg_id
\* ("if not epg_ids: return {}")
NeedsGuide_sensor(details, active_streams) ==
    /\ HasActiveStreams(active_streams)
    /\ ~MissingChannelId(active_streams)
    /\ ActiveEpgIds(details, active_streams) # {}

\* sensor.py _async_update_data
_async_update_data_sensor(details, prev, run1, active_streams, run2, doc, now) ==
    IF run1.exc # "none"
    THEN [exc |-> run1.exc, data |-> prev, token |-> run1.token, calls |-> StatusCall(run1),
          guide |-> "not_fetched"]
    ELSE IF ~HasActiveStreams(active_streams)
    THEN [exc |-> "none", data |-> DictData(<<>>), token |-> run1.token,
          calls |-> StatusCall(run1), guide |-> "not_fetched"]
    ELSE IF MissingChannelId(active_streams)
    THEN [exc |-> "KeyError", data |-> prev, token |-> run1.token, calls |-> StatusCall(run1),
          guide |-> "not_fetched"]
    ELSE [exc |-> "none",
          data |-> DictData(EnrichAll_sensor(details, active_streams,
                      _get_current_programs_from_xml(
                          ActiveEpgIds(details, active_streams), run2, doc, now),
                      <<>>)),
          token |-> run2.token, calls |-> BothCalls(run1, run2),
          guide |-> IF run2.log = <<>> THEN "not_fetched"
                    ELSE IF run2.exc # "none" THEN "failed"
                    ELSE IF doc.parsable THEN "parsed" ELSE "unparsable"]

----------------------------------------------------------------------------
(* The inputs of the coordinator specification *)

Ts(local, off) == [kind |-> "ok", local |-> local, off |-> off]
Malformed == [kind |-> "malformed", local |-> 0, off |-> 0]
Absent == [kind |-> "absent", local |-> 0, off |-> 0]

Programme(channel, start, stop, title) ==
    [channel |-> channel, start |-> start, stop |-> stop, title |-> title]

Guide(programmes) == [parsable |-> TRUE, channels |-> <<>>, programmes |-> programmes]

ChannelElement(id, display_name, icon) ==
    [id |-> id, display_name |-> display_name, icon |-> icon]

Stream(channel_id, stream_name) ==
    [channel_id |-> channel_id, stream_name |-> stream_name]

\* sessions of a status response: one that matches channel "AB" (and is
\* registry channel s1), one without a stream_name, one without a channel_id
SessionPool ==
    <<Stream("s1", <<"A", "B", " ", "H", "D">>), Stream("s2", <<>>),
      Stream("", <<"A", "B">>)>>

\* the status responses: up to MaxSessions sessions of the pool, in its order
SessionLists ==
    {[i \in 1..Len(ix) |-> SessionPool[ix[i]]] :
        ix \in {x \in SeqsUpTo(1..Len(SessionPool), MaxSessions) :
                  \A i \in 1..(Len(x) - 1) : x[i] < x[i + 1]}}

\* guide documents of a tick: unparsable, or two overlapping programmes
TickDocs ==
    {NoDoc,
     Guide(<<Programme("c1", Ts(1, 0), Ts(2, 0), 1),
             Programme("c1", Ts(1, 0), Ts(3, 0), 2)>>)}

Instants == 0..MaxTime

\* <channel> elements of a guide document: the second has no id
ChannelPool ==
    {ChannelElement("c1", <<"A", "B">>, "icon1"),
     ChannelElement("", <<"X">>, "")}

ChannelDocs ==
    {NoDoc} \cup
    {[parsable |-> TRUE, channels |-> c, programmes |-> <<>>] :
        c \in SeqsUpTo(ChannelPool, MaxChannels)}

\* entries of the registry list: the second has no uuid
RegistryPool ==
    {[uuid |-> "s1", logo_id |-> "l1", tvg_id |-> "c1"],
     [uuid |-> "", logo_id |-> "l3", tvg_id |-> "c1"]}

NotAList == [is_list |-> FALSE, items |-> <<>>]

RegistryBodies ==
    {NotAList} \cup
    {[is_list |-> TRUE, items |-> c] : c \in SeqsUpTo(RegistryPool, MaxChannels)}

----------------------------------------------------------------------------
(* The outcomes of the handlers over every answer of the backend *)

Directory(cls, cmap, details) == IF cls = "init" THEN cmap ELSE details

\* what a tick leaves behind, with the sessions of a tick that returned
Outcome(u, active_streams) ==
    [exc |-> u.exc, data |-> u.data, token |-> u.token, calls |-> u.calls,
     guide |-> u.guide,
     sessions |-> IF u.exc = "none" THEN active_streams ELSE <<>>,
     status |-> IF u.calls[1].exc # "none" THEN "failed"
                ELSE IF active_streams = <<>> THEN "empty" ELSE "sessions"]

UpdateData(cls, cmap, details, prev, in) ==
    Outcome(IF cls = "init"
            THEN _async_update_data(cmap, prev, in.run1, in.streams, in.run2,
                                    in.doc, in.now)
            ELSE _async_update_data_sensor(details, prev, in.run1, in.streams,
                                           in.run2, in.doc, in.now),
            in.streams)

TickInput(run1, streams, run2, doc, now) ==
    [run1 |-> run1, streams |-> streams, run2 |-> run2, doc |-> doc, now |-> now]

NeedsGuide(cls, details, active_streams) ==
    IF cls = "init" THEN HasActiveStreams(active_streams)
    ELSE NeedsGuide_sensor(details, active_streams)

\* the answers of the backend to one tick: the guide call and document are
\* there only when the tick asks for them
GuideInputs(cls, run1, streams) ==
    UNION {IF run2.exc # "none"
           THEN {TickInput(run1, streams, run2, NoDoc, 0)}
           ELSE {TickInput(run1, streams, run2, doc, now) :
                    doc \in TickDocs, now \in Instants}
           : run2 \in ApiRuns[cls, run1.token, "/output/epg"]}

StreamInputs(cls, details, run1) ==
    UNION {IF NeedsGuide(cls, details, streams)
           THEN GuideInputs(cls, run1, streams)
           ELSE {TickInput(run1, streams, NoRun(run1.token), NoDoc, 0)}
           : streams \in SessionLists}

TickInputs(cls, token, details) ==
    UNION {IF run1.exc # "none"
           THEN {TickInput(run1, <<>>, NoRun(run1.token), NoDoc, 0)}
           ELSE StreamInputs(cls, details, run1)
           : run1 \in ApiRuns[cls, token, "/proxy/ts/status"]}

TickOutcomes(cls, token, cmap, details, prev) ==
    {UpdateData(cls, cmap, details, prev, in) : in \in TickInputs(cls, token, details)}

\* what the backend handed to a directory build: the kind of the source and
\* the number of its entries that carry what the directory needs
NoSource == [kind |-> "not_fetched", valid |-> 0]

GuideSource(doc) ==
    IF ~doc.parsable THEN [kind |-> "malformed", valid |-> 0]
    ELSE [kind |-> "parsed",
          valid |-> Cardinality({i \in 1..Len(doc.channels) :
                                   /\ doc.channels[i].id # ""
                                   /\ doc.channels[i].display_name # <<>>})]

RegistrySource(body) ==
    IF ~body.is_list THEN [kind |-> "not_a_list", valid |-> 0]
    ELSE [kind |-> "list",
          valid |-> Cardinality({i \in 1..Len(body.items) : body.items[i].uuid # ""})]

Built(directory, exc, run, url, source) ==
    [directory |-> directory, exc |-> exc, token |-> run.token,
     calls |-> <<Call(url, run)>>,
     source |-> IF run.exc = "none" THEN source ELSE NoSource]

BuildFromXml(cmap, run, doc) ==
    LET p == async_populate_channel_map_from_xml(cmap, run, doc)
    IN  Built(p.channel_map, p.exc, run, "/output/epg", GuideSource(doc))

BuildFromRegistry(details, run, body) ==
    LET p == async_populate_channel_details(details, run, body)
    IN  Built(p.channel_details, p.exc, run, "/api/channels/channels/",
              RegistrySource(body))

PopulateOutcomes(cls, token, cmap, details) ==
    IF cls = "init"
    THEN UNION {{BuildFromXml(cmap, run, doc) :
                    doc \in IF run.exc = "none" THEN ChannelDocs ELSE {NoDoc}}
                : run \in ApiRuns[cls, token, "/output/epg"]}
    ELSE UNION {{BuildFromRegistry(details, run, body) :
                    body \in IF run.exc = "none" THEN RegistryBodies ELSE {NotAList}}
                : run \in ApiRuns[cls, token, "/api/channels/channels/"]}

----------------------------------------------------------------------------
(* The coordinator's life *)

\* op: the handler; step: where a setup stopped; exc: what the handler
\* raised; cause: what the coordinator's own method raised; calls: the
\* _api_request calls made; sessions, status, guide: what a tick was handed;
\* source: what a directory build was handed
Last(op, step, exc, cause, calls, o, source) ==
    [op |-> op, step |-> step, exc |-> exc, cause |-> cause, calls |-> calls,
     sessions |-> o.sessions, status |-> o.status, guide |-> o.guide,
     source |-> source]

\* no tick was run
NoTick == [sessions |-> <<>>, status |-> "none", guide |-> "not_fetched"]

NoProbe == [fn |-> "none"]

\* DispatcharrDataUpdateCoordinator.__init__ (either class)
Init ==
    /\ variant \in {"init", "sensor"}
    /\ phase = "new"
    /\ access_token = NoToken
    /\ channel_map = <<>>
    /\ channel_details = <<>>
    /\ data = NoneData
    /\ last = Last("construct", "done", "none", "none", <<>>, NoTick, NoSource)
    /\ probe = NoProbe

SetDirectory(d) ==
    /\ channel_map' = IF variant = "init" THEN d ELSE channel_map
    /\ channel_details' = IF variant = "sensor" THEN d ELSE channel_details

\* async_setup_entry (__init__.py:22, sensor.py:22): the directory build,
\* then async_config_entry_first_refresh, which runs _async_update_data and
\* raises ConfigEntryNotReady when it raised anything
SetupEntry ==
    /\ phase = "new"
    /\ \E p \in PopulateOutcomes(variant, access_token, channel_map, channel_details) :
        /\ SetDirectory(p.directory)
        /\ IF p.exc # "none"
           THEN /\ phase' = IF p.exc = "ConfigEntryNotReady" THEN "not_ready"
                             ELSE "setup_error"
                /\ access_token' = p.token
                /\ data' = data
                /\ last' = Last("setup", "populate", p.exc, p.exc, p.calls, NoTick,
                                p.source)
           ELSE \E o \in TickOutcomes(variant, p.token,
                                      Directory("init", p.directory, <<>>),
                                      Directory("sensor", <<>>, p.directory), data) :
                /\ access_token' = o.token
                /\ data' = o.data
                /\ phase' = IF o.exc = "none" THEN "ready" ELSE "not_ready"
                /\ last' = Last("setup",
                                IF o.exc = "none" THEN "done" ELSE "first_refresh",
                                IF o.exc = "none" THEN "none" ELSE "ConfigEntryNotReady",
                                o.exc, p.calls \o o.calls, o, p.source)
    /\ UNCHANGED <<variant, probe>>

\* a refresh that starts from an emptied directory and leaves it empty
Tick_clears ==
    /\ phase = "ready"
    /\ \E o \in TickOutcomes(variant, access_token, <<>>, <<>>, data) :
        /\ access_token' = o.token
        /\ data' = o.data
        /\ last' = Last("tick", "update", o.exc, o.exc, o.calls, o, NoSource)
    /\ channel_map' = <<>>
    /\ channel_details' = <<>>
    /\ UNCHANGED <<variant, phase, probe>>

\* a scheduled refresh of the set-up coordinator: _async_update_data, whose
\* result becomes coordinator.data unless it raised
Tick ==
    /\ phase = "ready"
    /\ \E o \in TickOutcomes(variant, access_token, channel_map, channel_details, data) :
        /\ access_token' = o.token
        /\ data' = o.data
        /\ last' = Last("tick", "update", o.exc, o.exc, o.calls, o, NoSource)
    /\ UNCHANGED <<variant, phase, channel_map, channel_details, probe>>

\* the directory build called again on the set-up coordinator
\* (async_populate_channel_map_from_xml / async_populate_channel_details
\* are public coroutines of the coordinator)
Rebuild ==
    /\ phase = "ready"
    /\ \E p \in PopulateOutcomes(variant, access_token, channel_map, channel_details) :
        /\ SetDirectory(p.directory)
        /\ access_token' = p.token
        /\ last' = Last("populate", "populate", p.exc, p.exc, p.calls, NoTick, p.source)
    /\ UNCHANGED <<variant, phase, data, probe>>

Next == SetupEntry \/ Tick \/ Rebuild

Spec == Init /\ [][Next]_vars

----------------------------------------------------------------------------
(* The EPG resolvers on their own: every guide document of up to MaxProgs   *)
(* programme elements, resolved by the loop of each coordinator             *)

StartPool == {Ts(0, 0), Ts(2, 1), Malformed}
StopPool == {Ts(1, 0), Ts(3, 1), Absent}

ProgrammePool ==
    {Programme(c, s, e, 0) : c \in {"c1", "c2"}, s \in StartPool, e \in StopPool}

\* the title of a programme element is its position in the document
EpgDocs ==
    {[i \in 1..Len(d) |-> Programme(d[i].channel, d[i].start, d[i].stop, i)] :
        d \in SeqsUpTo(ProgrammePool, MaxProgs)}

EpgInit ==
    /\ variant = "both"
    /\ phase = "resolver"
    /\ access_token = NoToken
    /\ channel_map = <<>>
    /\ channel_details = <<>>
    /\ data = NoneData
    /\ last = Last("construct", "done", "none", "none", <<>>, NoTick, NoSource)
    /\ \E programmes \in EpgDocs, epg_ids \in {{"c1"}, {"c1", "c2"}}, now \in Instants :
        probe = [fn |-> "input", programmes |-> programmes, epg_ids |-> epg_ids,
                 now |-> now, first |-> {}, current |-> <<>>]

\* the programme loop of __init__.py for every id, and
\* _get_current_programs_from_xml of sensor.py for the set of ids
Resolve ==
    /\ probe.fn = "input"
    /\ probe' = [probe EXCEPT
            !.fn = "resolved",
            !.first = {<<k, FirstCurrent(probe.programmes, k, probe.now)>> :
                          k \in probe.epg_ids},
            !.current = _get_current_programs_from_xml(probe.epg_ids, NoRun(NoToken),
                            Guide(probe.programmes), probe.now)]
    /\ UNCHANGED <<variant, phase, access_token, channel_map, channel_details, data, last>>

SpecEpg == EpgInit /\ [][Resolve]_vars

----------------------------------------------------------------------------
(* The name matcher on its own: every directory of up to MaxKeys channels   *)
(* and every stream name made of a prefix, a core and a suffix              *)

NameChars == {"A", "B", "2", " "}

NamePrefixes == {<<>>, <<"X", ":", " ">>}
NameSuffixes == {<<>>, <<" ", "h", "D">>}

StreamNames ==
    {pre \o core \o suf :
        pre \in NamePrefixes, core \in SeqsUpTo(NameChars, MaxNameLen),
        suf \in NameSuffixes}

\* <channel> elements with display names whose slugs are ab, ab2, b2, a_b
MatchChannelPool ==
    {ChannelElement("k1", <<"A", "B">>, "i1"),
     ChannelElement("k2", <<"A", "B", "2">>, "i2"),
     ChannelElement("k3", <<"B", "2">>, "i3"),
     ChannelElement("k4", <<"A", " ", "B">>, "i4")}

\* the directories the build makes of up to MaxKeys different elements
MatchDirs ==
    {MapChannels(c, <<>>) :
        c \in {x \in SeqsUpTo(MatchChannelPool, MaxKeys) :
                  \A i, j \in 1..Len(x) : i # j => x[i] # x[j]}}

MatchInit ==
    /\ variant = "init"
    /\ phase = "matcher"
    /\ access_token = NoToken
    /\ channel_map \in MatchDirs
    /\ channel_details = <<>>
    /\ data = NoneData
    /\ last = Last("construct", "done", "none", "none", <<>>, NoTick, NoSource)
    /\ \E stream_name \in StreamNames :
        probe = [fn |-> "input", stream_name |-> stream_name, details |-> NoDetails]

\* self._get_channel_details_from_stream_name(stream_name)
Match ==
    /\ phase = "matcher"
    /\ probe.fn = "input"
    /\ probe' = [probe EXCEPT
            !.fn = "matched",
            !.details = _get_channel_details_from_stream_name(channel_map,
                            probe.stream_name)]
    /\ UNCHANGED <<variant, phase, access_token, channel_map, channel_details, data, last>>

SpecMatch == MatchInit /\ [][Match]_vars

----------------------------------------------------------------------------
(* The directory builds on their own: the build run twice on the same       *)
(* source, starting from an empty or an older directory                     *)

\* <channel> elements: two with the slug ab, one without id, one without
\* display name
BuildChannelPool ==
    {ChannelElement("c1", <<"A", "B">>, "icon1"),
     ChannelElement("c2", <<"a", "B">>, "icon2"),
     ChannelElement("c3", <<"B", "2">>, ""),
     ChannelElement("", <<"X">>, ""),
     ChannelElement("c4", <<>>, "")}

BuildDocs ==
    {NoDoc} \cup
    {[parsable |-> TRUE, channels |-> c, programmes |-> <<>>] :
        c \in SeqsUpTo(BuildChannelPool, MaxChannels)}

\* registry entries: two with the uuid s1, one without uuid
BuildRegistryPool ==
    {[uuid |-> "s1", logo_id |-> "l1", tvg_id |-> "c1"],
     [uuid |-> "s1", logo_id |-> "l2", tvg_id |-> "c2"],
     [uuid |-> "s2", logo_id |-> "", tvg_id |-> ""],
     [uuid |-> "", logo_id |-> "l3", tvg_id |-> "c1"]}

BuildBodies ==
    {NotAList} \cup
    {[is_list |-> TRUE, items |-> c] : c \in SeqsUpTo(BuildRegistryPool, MaxChannels)}

\* a directory of an earlier generation, with a key no source of the pools has
OldChannelMap == MapChannels(<<ChannelElement("c9", <<"X", "2">>, "")>>, <<>>)
OldChannelDetails == ByUuid(<<[uuid |-> "s9", logo_id |-> "l9", tvg_id |-> "c9"]>>, <<>>)

\* one build of the coordinator's class on the probe's source
BuildOnce(cls, cmap, details, run, source) ==
    IF cls = "init"
    THEN LET p == async_populate_channel_map_from_xml(cmap, run, source)
         IN  [directory |-> p.channel_map, exc |-> p.exc]
    ELSE LET p == async_populate_channel_details(details, run, source)
         IN  [directory |-> p.channel_details, exc |-> p.exc]

BuildUrl(cls) == IF cls = "init" THEN "/output/epg" ELSE "/api/channels/channels/"

BuildSources(cls, run) ==
    IF run.exc # "none" THEN {IF cls = "init" THEN NoDoc ELSE NotAList}
    ELSE IF cls = "init" THEN BuildDocs ELSE BuildBodies

BuildInit ==
    /\ variant \in {"init", "sensor"}
    /\ phase = "builder"
    /\ access_token = 1
    /\ channel_map \in IF variant = "init" THEN {<<>>, OldChannelMap} ELSE {<<>>}
    /\ channel_details \in IF variant = "sensor" THEN {<<>>, OldChannelDetails} ELSE {<<>>}
    /\ data = NoneData
    /\ last = Last("construct", "done", "none", "none", <<>>, NoTick, NoSource)
    /\ \E run \in ApiRuns[variant, 1, BuildUrl(variant)] :
        \E source \in BuildSources(variant, run) :
            probe = [fn |-> "input", run |-> run, source |-> source, builds |-> 0,
                     prior |-> Directory(variant, channel_map, channel_details),
                     first |-> <<>>, exc |-> "none"]

\* the build coroutine, awaited with the backend answering as before
Build ==
    /\ phase = "builder"
    /\ probe.builds < 2
    /\ LET b == BuildOnce(variant, channel_map, channel_details, probe.run, probe.source)
       IN  /\ SetDirectory(b.directory)
           /\ probe' = [probe EXCEPT
                   !.fn = "built",
                   !.builds = probe.builds + 1,
                   !.first = IF probe.builds = 0 THEN b.directory ELSE probe.first,
                   !.exc = b.exc]
    /\ access_token' = probe.run.token
    /\ UNCHANGED <<variant, phase, data, last>>

SpecBuild == BuildInit /\ [][Build]_vars

----------------------------------------------------------------------------
(* One tick on its own: a coordinator that holds a directory of two         *)
(* channels and a token, the backend answering every request with 200       *)

\* the directory of the guide-sourced coordinator: keys ab and b2
TickChannelMap ==
    MapChannels(<<ChannelElement("c1", <<"A", "B">>, "icon1"),
                  ChannelElement("c2", <<"B", "2">>, "icon2")>>, <<>>)

\* the directory of the registry-sourced coordinator: uuids s1 and s4
TickChannelDetails ==
    ByUuid(<<[uuid |-> "s1", logo_id |-> "l1", tvg_id |-> "c1"],
             [uuid |-> "s4", logo_id |-> "l2", tvg_id |-> "c2"]>>, <<>>)

\* sessions: s1 is channel AB, s4 is channel B2, s3 matches no channel (by
\* name or by uuid), s2 has no stream_name
TickSessionPool ==
    <<Stream("s1", <<"A", "B", " ", "H", "D">>),
      Stream("s3", <<"X">>),
      Stream("s4", <<"X", ":", " ", "B", "2">>),
      Stream("s2", <<>>)>>

TickSessionLists ==
    {[i \in 1..Len(ix) |-> TickSessionPool[ix[i]]] :
        ix \in {x \in SeqsUpTo(1..Len(TickSessionPool), MaxSessions) :
                  \A i \in 1..(Len(x) - 1) : x[i] < x[i + 1]}}

\* programme elements: channel c1 with a malformed start, a malformed stop,
\* a missing stop and well-formed timestamps; channel c2 well-formed
TickProgrammePool ==
    {Programme("c1", Malformed, Ts(2, 0), 0),
     Programme("c1", Ts(0, 0), Malformed, 0),
     Programme("c1", Ts(0, 0), Absent, 0),
     Programme("c1", Ts(0, 0), Ts(2, 0), 0),
     Programme("c2", Ts(2, 1), Ts(3, 0), 0)}

\* the guide documents: unparsable, or up to MaxProgs programme elements,
\* the title of each being its position
TickGuides ==
    {NoDoc} \cup
    {Guide([i \in 1..Len(d) |-> Programme(d[i].channel, d[i].start, d[i].stop, i)]) :
        d \in SeqsUpTo(TickProgrammePool, MaxProgs)}

\* the call answered 200 at once
OkRun(cls, token, url) == _api_request(cls, token, url, [auth |-> <<>>, resp |-> <<200>>])

TickInit ==
    /\ variant \in {"init", "sensor"}
    /\ phase = "ticker"
    /\ access_token = 1
    /\ channel_map = IF variant = "init" THEN TickChannelMap ELSE <<>>
    /\ channel_details = IF variant = "sensor" THEN TickChannelDetails ELSE <<>>
    /\ data = DictData(<<>>)
    /\ last = Last("construct", "done", "none", "none", <<>>, NoTick, NoSource)
    /\ \E streams \in TickSessionLists, doc \in TickGuides, now \in Instants :
        probe = [fn |-> "input", streams |-> streams, doc |-> doc, now |-> now]

\* _async_update_data on the probe's status response, guide and instant
TickOnce ==
    /\ phase = "ticker"
    /\ probe.fn = "input"
    /\ LET run1 == OkRun(variant, access_token, "/proxy/ts/status")
           run2 == IF NeedsGuide(variant, channel_details, probe.streams)
                   THEN OkRun(variant, run1.token, "/output/epg")
                   ELSE NoRun(run1.token)
           o == UpdateData(variant, channel_map, channel_details, data,
                           TickInput(run1, probe.streams, run2, probe.doc, probe.now))
       IN  /\ access_token' = o.token
           /\ data' = o.data
           /\ last' = Last("tick", "update", o.exc, o.exc, o.calls, o, NoSource)
    /\ probe' = [probe EXCEPT !.fn = "ticked"]
    /\ UNCHANGED <<variant, phase, channel_map, channel_details>>

SpecTick == TickInit /\ [][TickOnce]_vars

----------------------------------------------------------------------------
(* One gateway call on its own: the backend holds MaxAnswers answers ready  *)
(* at the token endpoint and at the resource, more than a call asks for     *)

ReadyScripts ==
    {[auth |-> a, resp |-> r] :
        a \in [1..MaxAnswers -> AuthReplies], r \in [1..MaxAnswers -> Replies]}

CallInit ==
    /\ variant \in {"init", "sensor"}
    /\ phase = "caller"
    /\ access_token \in 0..MaxToken
    /\ channel_map = <<>>
    /\ channel_details = <<>>
    /\ data = NoneData
    /\ last = Last("construct", "done", "none", "none", <<>>, NoTick, NoSource)
    /\ \E script \in ReadyScripts :
        probe = [fn |-> "input", url |-> "/proxy/ts/status", script |-> script]

\* self._api_request("GET", url)
ApiCall ==
    /\ phase = "caller"
    /\ probe.fn = "input"
    /\ LET run == _api_request(variant, access_token, probe.url, probe.script)
       IN  /\ access_token' = run.token
           /\ last' = Last("call", "done", run.exc, run.exc,
                           <<Call(probe.url, run)>>, NoTick, NoSource)
    /\ probe' = [probe EXCEPT !.fn = "called"]
    /\ UNCHANGED <<variant, phase, channel_map, channel_details, data>>

SpecCall == CallInit /\ [][ApiCall]_vars

----------------------------------------------------------------------------
(* The stream managers: the listeners that create the per-stream entities   *)
(* after each refresh of the coordinator                                    *)

\* an add event is one entity handed to async_add_entities
AddEvent(id) == [kind |-> "add", id |-> id]

ManagerState(fn, known, events) == [fn |-> fn, known |-> known, events |-> events]

\* a listener that adds an entity for every id of the data, known or not
_update_entities_current(known, d) ==
    LET current_stream_ids == IF d.is_none THEN {} ELSE DictKeys(d.map)
    IN  ManagerState("updated", known \cup current_stream_ids,
                     {AddEvent(id) : id \in current_stream_ids})

\* DispatcharrStreamManager._update_entities (media_player.py:45-57):
\* what the listener leaves in _known_stream_ids and the entities it added
_update_entities(known, d) ==
    LET current_stream_ids == IF d.is_none THEN {} ELSE DictKeys(d.map)
        new_stream_ids == current_stream_ids \ known
    IN  ManagerState("updated", known \cup new_stream_ids,
                     {AddEvent(id) : id \in new_stream_ids})

\* DispatcharrStreamManager._update_sensors (sensor.py:200-212); a
\* coordinator.data that is not a dict is None
_update_sensors(known, d) ==
    LET current_stream_ids == IF ~d.is_none THEN DictKeys(d.map) ELSE {}
        new_stream_ids == current_stream_ids \ known
    IN  ManagerState("updated", known \cup new_stream_ids,
                     {AddEvent(id) : id \in new_stream_ids})

\* the ids of the coordinator's data, as the stream manager reads them
CurrentIds(d) == IF d.is_none THEN {} ELSE DictKeys(d.map)

\* the host's side of async_add_entities: the number of entities it was
\* handed for each stream id, with what the listener left behind and the
\* ids of the data the refresh replaced
async_add_entities(entities, m, prev) ==
    LET ids == {e.id : e \in m.events}
    IN  [fn |-> m.fn, known |-> m.known, events |-> m.events,
         prev |-> CurrentIds(prev),
         entities |-> [id \in DOMAIN entities \cup ids |->
                          (IF id \in DOMAIN entities THEN entities[id] ELSE 0)
                          + (IF id \in ids THEN 1 ELSE 0)]]

\* the guide of a manager's tick: unparsable, or without programmes
ManagerGuides == {NoDoc, Guide(<<>>)}

\* a tick that completes: every call answered 200 at once
ManagerTick(cls, token, cmap, details, prev, streams, doc) ==
    LET run1 == OkRun(cls, token, "/proxy/ts/status")
        run2 == IF NeedsGuide(cls, details, streams)
                THEN OkRun(cls, run1.token, "/output/epg")
                ELSE NoRun(run1.token)
    IN  UpdateData(cls, cmap, details, prev, TickInput(run1, streams, run2, doc, 0))

\* the state after DispatcharrStreamManager.__init__: the coordinator has
\* made its first refresh; media_player.py:39-43 registers the listener,
\* sensor.py:193-198 registers it and calls it once
ManagerInit ==
    /\ variant \in {"init", "sensor"}
    /\ phase = "listening"
    /\ access_token = 1
    /\ channel_map = IF variant = "init" THEN TickChannelMap ELSE <<>>
    /\ channel_details = IF variant = "sensor" THEN TickChannelDetails ELSE <<>>
    /\ \E streams \in TickSessionLists, doc \in ManagerGuides :
        LET o == ManagerTick(variant, 1, channel_map, channel_details, NoneData,
                             streams, doc)
        IN  /\ o.exc = "none"
            /\ data = o.data
            /\ last = Last("setup", "done", "none", "none", o.calls, o, NoSource)
    /\ probe = async_add_entities(<<>>,
                    IF variant = "init" THEN ManagerState("constructed", {}, {})
                    ELSE _update_sensors({}, data),
                    NoneData)

\* a refresh of the coordinator that completes, then its listeners: the
\* stream manager's _update_entities / _update_sensors
Refresh ==
    /\ phase = "listening"
    /\ \E streams \in TickSessionLists, doc \in ManagerGuides :
        LET o == ManagerTick(variant, access_token, channel_map, channel_details,
                             data, streams, doc)
        IN  /\ o.exc = "none"
            /\ access_token' = o.token
            /\ data' = o.data
            /\ last' = Last("tick", "update", o.exc, o.exc, o.calls, o, NoSource)
            /\ probe' = async_add_entities(probe.entities,
                            IF variant = "init"
                            THEN _update_entities(probe.known, o.data)
                            ELSE _update_sensors(probe.known, o.data),
                            data)
    /\ UNCHANGED <<variant, phase, channel_map, channel_details>>

SpecManager == ManagerInit /\ [][Refresh]_vars

----------------------------------------------------------------------------
(* Reading the record of the last handler *)

GetIdx(c) == {i \in 1..Len(c.log) : c.log[i].op = "GET"}
PostIdx(c) == {i \in 1..Len(c.log) : c.log[i].op = "POST"}

FirstGet(c) == CHOOSE i \in GetIdx(c) : \A j \in GetIdx(c) : i <= j

\* the first request of the call was answered 401
Rejected(c) == GetIdx(c) # {} /\ c.log[FirstGet(c)].reply = "401"

\* the credential exchanges and the requests after the first request
ReauthIdx(c) == {i \in PostIdx(c) : i > FirstGet(c)}
RetryIdx(c) == {i \in GetIdx(c) : i > FirstGet(c)}

LastCalls == {last.calls[k] : k \in 1..Len(last.calls)}

\* the call ended in a credential exchange that failed
ExchangeFailed(c) ==
    /\ c.log # <<>>
    /\ c.log[Len(c.log)].op = "POST"
    /\ c.log[Len(c.log)].access = NoToken

Dir == Directory(variant, channel_map, channel_details)

\* the ids of the sessions that carry one
SessionIds(sessions) ==
    {sessions[i].channel_id : i \in {j \in 1..Len(sessions) : sessions[j].channel_id # ""}}

----------------------------------------------------------------------------
(* Claims *)

\* C1 as stated: in every _api_request call whose first request is answered
\* 401 there is exactly one credential exchange and exactly one retry of the
\* same request, and a retry answered 401 ends the call with UpdateFailed.
C1_AsStated ==
    \A c \in LastCalls :
        Rejected(c) =>
            /\ Cardinality(ReauthIdx(c)) = 1
            /\ Cardinality(RetryIdx(c)) = 1
            /\ \A i \in RetryIdx(c) :
                /\ c.log[i].url = c.url
                /\ i = Len(c.log)
                /\ c.log[i].reply = "401" => c.exc = "UpdateFailed"

\* C1 amended: in every _api_request call whose first request is answered
\* 401 there is exactly one credential exchange; when the exchange hands out
\* a token there is exactly one retry of the same request, it is the last
\* network operation of the call, and a retry answered 401 ends the call
\* with UpdateFailed; when the exchange fails, the call ends with an error,
\* the exchange being its last network operation and no request retried.
C1_OneReauthOneRetry ==
    \A c \in LastCalls :
        Rejected(c) =>
            /\ Cardinality(ReauthIdx(c)) = 1
            /\ \A a \in ReauthIdx(c) :
                IF c.log[a].access # NoToken
                THEN /\ Cardinality(RetryIdx(c)) = 1
                     /\ \A i \in RetryIdx(c) :
                         /\ c.log[i].url = c.url
                         /\ i = Len(c.log)
                         /\ i = a + 1
                         /\ c.log[i].reply = "401" => c.exc = "UpdateFailed"
                ELSE /\ RetryIdx(c) = {}
                     /\ a = Len(c.log)
                     /\ c.exc # "none"

\* C1 witness: a tick whose status request was answered 401, re-authenticated,
\* was retried once, answered 401 again and ended with UpdateFailed
C1_Witness ==
    /\ last.op = "tick"
    /\ last.exc = "UpdateFailed"
    /\ \E c \in LastCalls :
        /\ Rejected(c)
        /\ \E i \in RetryIdx(c) : c.log[i].reply = "401"

\* C2 as stated: a credential exchange whose failure ends the handler
\* surfaces as ConfigEntryNotReady during setup and as UpdateFailed during a
\* regular tick.
C2_AsStated ==
    (last.cause # "none" /\ \E c \in LastCalls : ExchangeFailed(c)) =>
        /\ last.op = "setup" => last.exc = "ConfigEntryNotReady"
        /\ last.op = "tick" => last.exc = "UpdateFailed"

\* the source of a directory build was not fetched, not parsed, not a list,
\* or holds no entry the directory can take
BuildFailed(l) ==
    \/ l.exc # "none"
    \/ l.source.kind \in {"not_fetched", "malformed", "not_a_list"}
    \/ l.source.valid = 0

\* C3 as stated: a directory build that fails (fetch error, malformed XML,
\* zero mapped channels, non-list registry response) leaves the directory
\* held before it unchanged.
C3_AsStated ==
    [][(last'.op = "populate" /\ BuildFailed(last')) => Dir' = Dir]_vars

\* C4 as stated: in both variants a setup whose directory source was fetched
\* and parsed but holds no usable entry stops at the directory build with
\* ConfigEntryNotReady.
C4_AsStated ==
    (/\ last.op = "setup"
     /\ last.source.kind \in {"parsed", "list"}
     /\ last.source.valid = 0)
        => (last.step = "populate" /\ last.exc = "ConfigEntryNotReady")

\* C5 as stated: a regular tick in which an _api_request call (status or
\* guide) raised UpdateFailed raises UpdateFailed and leaves the published
\* output unchanged.
C5_AsStated ==
    [][(last'.op = "tick" /\ \E k \in 1..Len(last'.calls) :
                                 last'.calls[k].exc = "UpdateFailed")
        => (last'.exc = "UpdateFailed" /\ data' = data)]_vars

\* C6 as stated: a regular tick handed an unparsable guide document returns
\* normally, and its output holds exactly the sessions of that tick, each
\* without a program.
C6_AsStated ==
    (last.op = "tick" /\ last.guide = "unparsable") =>
        /\ last.exc = "none"
        /\ ~data.is_none
        /\ DictKeys(data.map) = SessionIds(last.sessions)
        /\ \A i \in 1..Len(data.map) : data.map[i][2].program = NoProgram

\* C7: a tick (the first refresh of a setup included) whose status fetch
\* returned no session returns normally, publishes the empty map, and its
\* status call is the last call made: no guide request and no credential
\* exchange follow it.
C7_EmptyTickFetchesNothing ==
    last.status = "empty" =>
        /\ last.cause = "none"
        /\ data = DictData(<<>>)
        /\ last.calls[Len(last.calls)].url = "/proxy/ts/status"
        /\ Cardinality({k \in 1..Len(last.calls) :
                           last.calls[k].url = "/proxy/ts/status"}) = 1

\* C7 witness: a regular tick whose status fetch returned no session and
\* that made the status call only
C7_Witness ==
    /\ last.op = "tick"
    /\ last.status = "empty"
    /\ data = DictData(<<>>)
    /\ Len(last.calls) = 1

\* C8 as stated: after a tick that returned normally with a non-empty session
\* list the output has exactly the session ids of that tick as its keys.
C8_AsStated ==
    (last.op = "tick" /\ last.exc = "none" /\ last.sessions # <<>>) =>
        /\ ~data.is_none
        /\ DictKeys(data.map) = SessionIds(last.sessions)

\* the programme elements of channel k that are current at the probe's instant
CurrentIdx(k) ==
    {i \in 1..Len(probe.programmes) :
        /\ probe.programmes[i].channel = k
        /\ probe.programmes[i].start.kind = "ok"
        /\ probe.programmes[i].stop.kind = "ok"
        /\ Instant(probe.programmes[i].start) <= probe.now
        /\ probe.now < Instant(probe.programmes[i].stop)}

MinOf(S) == CHOOSE i \in S : \A j \in S : i <= j

\* what the loop of __init__.py reported for channel k
FirstFor(k) == (CHOOSE pair \in probe.first : pair[1] = k)[2]

\* C9: both resolvers report at most one program per channel key: none when
\* no programme element of the channel contains the instant, and otherwise
\* the first such element in document order.
C9_FirstCurrentOnly ==
    probe.fn = "resolved" =>
        /\ Cardinality(DictKeys(probe.current)) = Len(probe.current)
        /\ DictKeys(probe.current) \subseteq probe.epg_ids
        /\ \A k \in probe.epg_ids :
            IF CurrentIdx(k) = {}
            THEN ~DictHas(probe.current, k) /\ FirstFor(k) = NoProgram
            ELSE /\ DictHas(probe.current, k)
                 /\ DictGet(probe.current, k).title = MinOf(CurrentIdx(k))
                 /\ FirstFor(k).title = MinOf(CurrentIdx(k))

\* C9 witness: a resolved document in which two programme elements of one
\* channel contain the instant
C9_Witness ==
    /\ probe.fn = "resolved"
    /\ \E k \in probe.epg_ids :
        /\ Cardinality(CurrentIdx(k)) >= 2
        /\ DictGet(probe.current, k).title = MinOf(CurrentIdx(k))

\* programme element i is what the resolvers reported for its channel
Reported(i) ==
    LET k == probe.programmes[i].channel
    IN  /\ DictHas(probe.current, k)
        /\ DictGet(probe.current, k).title = i

ReportedFirst(i) == FirstFor(probe.programmes[i].channel).title = i

\* the well-formed programme elements of the requested channels
Timed ==
    {i \in 1..Len(probe.programmes) :
        /\ probe.programmes[i].channel \in probe.epg_ids
        /\ probe.programmes[i].start.kind = "ok"
        /\ probe.programmes[i].stop.kind = "ok"}

\* C10: a programme is reported only if start <= now < stop; one with
\* now = stop or now < start is never reported; and one with
\* start <= now < stop is reported unless an earlier element of its channel
\* is (now = start included).
C10_HalfOpenInterval ==
    probe.fn = "resolved" =>
        \A i \in Timed :
            LET start == probe.programmes[i].start.local - probe.programmes[i].start.off
                stop == probe.programmes[i].stop.local - probe.programmes[i].stop.off
                inside == start <= probe.now /\ probe.now < stop
                earlier == \E j \in CurrentIdx(probe.programmes[i].channel) : j < i
            IN  /\ (Reported(i) \/ ReportedFirst(i)) => inside
                /\ (inside /\ ~earlier) => (Reported(i) /\ ReportedFirst(i))

\* C10 witness: one programme reported at now = start and another, with
\* now = stop, not reported
C10_Witness ==
    /\ probe.fn = "resolved"
    /\ \E i \in Timed :
        /\ Instant(probe.programmes[i].start) = probe.now
        /\ Reported(i) /\ ReportedFirst(i)
    /\ \E j \in Timed :
        /\ Instant(probe.programmes[j].stop) = probe.now
        /\ Instant(probe.programmes[j].start) < probe.now
        /\ ~Reported(j) /\ ~ReportedFirst(j)

\* the stream name of the probe as the matcher compares it
Normalized == slugify(StripName(probe.stream_name))

\* the positions of the directory keys contained in the normalized name
Contained == {i \in 1..Len(channel_map) : IsSubstring(channel_map[i][1], Normalized)}

\* the first position, in directory order, of a longest contained key
Longest ==
    CHOOSE i \in Contained :
        \A j \in Contained :
            \/ Len(channel_map[j][1]) < Len(channel_map[i][1])
            \/ Len(channel_map[j][1]) = Len(channel_map[i][1]) /\ i <= j

\* C11: the matcher returns the record of the key equal to the normalized
\* name when there is one; otherwise the record of the longest directory key
\* contained in the normalized name, the first in directory order among keys
\* of that length; and no match when no key is contained.
C11_ExactThenLongest ==
    (phase = "matcher" /\ probe.fn = "matched") =>
        IF \E i \in 1..Len(channel_map) : channel_map[i][1] = Normalized
        THEN \E i \in 1..Len(channel_map) :
                /\ channel_map[i][1] = Normalized
                /\ probe.details = channel_map[i][2]
        ELSE IF Contained = {}
        THEN probe.details = NoDetails
        ELSE probe.details = channel_map[Longest][2]

\* C11 witness: the directory lists ab before ab2, the name "X: AAB2 hD" is
\* no key, and the matcher answered the record of ab2
C11_Witness ==
    /\ phase = "matcher" /\ probe.fn = "matched"
    /\ DictKeySeq(channel_map) = << <<"a", "b">>, <<"a", "b", "2">> >>
    /\ probe.stream_name = <<"X", ":", " ", "A", "A", "B", "2", " ", "h", "D">>
    /\ probe.details.id = "k2"

\* the probe's source was fetched and is a well-formed document / a list
SourceRead ==
    /\ phase = "builder" /\ probe.fn = "built"
    /\ probe.run.exc = "none"
    /\ IF variant = "init" THEN probe.source.parsable ELSE probe.source.is_list

\* the entries of the probe's source, and the lookup key of each ("" or <<>>
\* for an entry that lacks the identifier)
SourceEntries ==
    IF variant = "init" THEN probe.source.channels ELSE probe.source.items

EntryUsable(e) ==
    IF variant = "init" THEN e.id # "" /\ e.display_name # <<>> ELSE e.uuid # ""

EntryKey(e) == IF variant = "init" THEN slugify(e.display_name) ELSE e.uuid

UsableIdx == {i \in 1..Len(SourceEntries) : EntryUsable(SourceEntries[i])}

UsableKeys == {EntryKey(SourceEntries[i]) : i \in UsableIdx}

\* every entry is usable and no two entries have the same key
AllUnique ==
    /\ UsableIdx = 1..Len(SourceEntries)
    /\ Cardinality(UsableKeys) = Len(SourceEntries)

\* C12 as stated: a source of N entries gives a directory of exactly N
\* entries when every entry is usable and the keys are unique, and otherwise
\* a directory of fewer than N entries from a build that does not fail.
C12_AsStated ==
    SourceRead =>
        IF AllUnique
        THEN Len(Dir) = Len(SourceEntries)
        ELSE Len(Dir) < Len(SourceEntries) /\ probe.exc = "none"

\* C12 amended: a source of N entries gives a directory of exactly N entries
\* when every entry is usable and the keys are unique, and otherwise one of
\* fewer than N entries; the directory holds exactly the keys of the usable
\* entries, and a build that keeps at least one entry does not fail.
C12_DropsNotFails ==
    SourceRead =>
        /\ IF AllUnique
           THEN Len(Dir) = Len(SourceEntries)
           ELSE Len(Dir) < Len(SourceEntries)
        /\ DictKeys(Dir) = UsableKeys
        /\ Len(Dir) = Cardinality(UsableKeys)
        /\ Len(Dir) >= 1 => probe.exc = "none"

\* C12 witness: a build from two entries of which one was dropped, which
\* did not fail
C12_Witness ==
    /\ SourceRead
    /\ Len(SourceEntries) = 2
    /\ Len(Dir) = 1
    /\ probe.exc = "none"

\* C13: the build run twice in a row on the same source leaves, after the
\* second run, the directory the first run left; and after a build that
\* succeeded every key of the directory is a key of the source, whatever the
\* directory held before.
C13_BuildIdempotent ==
    (phase = "builder" /\ probe.fn = "built") =>
        /\ probe.builds = 2 => Dir = probe.first
        /\ probe.exc = "none" =>
            /\ DictKeys(Dir) \subseteq UsableKeys
            /\ Dir = BuildOnce(variant, <<>>, <<>>, probe.run, probe.source).directory

\* C13 witness: two builds that succeeded, the coordinator having held an
\* older directory before the first, and the directory is not empty
C13_Witness ==
    /\ phase = "builder" /\ probe.fn = "built"
    /\ probe.builds = 2
    /\ probe.exc = "none"
    /\ Len(Dir) = 2
    /\ Dir = probe.first
    /\ probe.prior # <<>>
    /\ DictKeys(probe.prior) \cap DictKeys(Dir) = {}

\* the handler whose record is l answered some request with 401
Saw401(l) ==
    \E k \in 1..Len(l.calls) : \E i \in 1..Len(l.calls[k].log) :
        l.calls[k].log[i].op = "GET" /\ l.calls[k].log[i].reply = "401"

\* the credential exchanges of the handler whose record is l, as
\* <<call, position in the call's log>>
Exchanges(l) ==
    UNION {{<<k, i>> : i \in {j \in 1..Len(l.calls[k].log) :
                                 l.calls[k].log[j].op = "POST"}} :
           k \in 1..Len(l.calls)}

\* C14: in every handler a credential exchange is either the first network
\* operation of the handler, made with no token stored, or directly follows
\* a request answered 401; and a handler entered with a token stored in
\* which no request is answered 401 issues no credential exchange and
\* leaves the stored token unchanged.
C14_LazyTokenPreserving ==
    [][/\ \A e \in Exchanges(last') :
            \/ e[1] = 1 /\ e[2] = 1 /\ access_token = NoToken
            \/ /\ e[2] > 1
               /\ last'.calls[e[1]].log[e[2] - 1].op = "GET"
               /\ last'.calls[e[1]].log[e[2] - 1].reply = "401"
       /\ (access_token # NoToken /\ ~Saw401(last')) =>
            (Exchanges(last') = {} /\ access_token' = access_token)]_vars

\* C14 witness: a tick that made the status call and the guide call, each
\* one request carrying the stored token, none answered 401
C14_Witness ==
    /\ last.op = "tick"
    /\ Len(last.calls) = 2
    /\ ~Saw401(last)
    /\ Exchanges(last) = {}
    /\ \A k \in 1..2 :
        /\ Len(last.calls[k].log) = 1
        /\ last.calls[k].log[1].bearer = access_token
    /\ access_token # NoToken

\* the tick of the probe was run
Ticked == phase = "ticker" /\ probe.fn = "ticked"

\* the calls of the last handler for the guide document
GuideCalls(l) == {k \in 1..Len(l.calls) : l.calls[k].url = "/output/epg"}

\* the channel key a stream resolves to, "" when it resolves to none: by
\* name (guide-sourced) or by uuid (registry-sourced)
ChannelOf(stream) ==
    IF variant = "init"
    THEN _get_channel_details_from_stream_name(channel_map, stream.stream_name).id
    ELSE DetailsGet(channel_details, stream.channel_id).tvg_id

\* the streams of the probe that resolve to a channel
Resolved == {i \in 1..Len(probe.streams) : ChannelOf(probe.streams[i]) # ""}

\* C15: a tick makes at most one gateway call for /output/epg, and exactly
\* one when two sessions of two different channels need a program.
C15_GuideFetchedOnce ==
    (Ticked /\ last.op = "tick") =>
        /\ Cardinality(GuideCalls(last)) <= 1
        /\ Resolved # {} => Cardinality(GuideCalls(last)) = 1
        /\ \A k \in GuideCalls(last) : Len(last.calls[k].log) = 1

\* C15 witness: a tick with two sessions that resolve to two different
\* channels and got a program each, and one call for the guide
C15_Witness ==
    /\ Ticked /\ last.exc = "none"
    /\ Cardinality({ChannelOf(probe.streams[i]) : i \in Resolved}) = 2
    /\ Len(data.map) = 2
    /\ \A i \in 1..Len(data.map) : data.map[i][2].program # NoProgram
    /\ Cardinality(GuideCalls(last)) = 1

\* C16: a gateway call ends, with a result or an exception, after at most
\* two resource requests and at most two credential exchanges, however many
\* answers the backend holds ready; a second request is made only after the
\* first was answered 401, and nothing follows it.
C16_BoundedCall ==
    (phase = "caller" /\ probe.fn = "called") =>
        \A c \in LastCalls :
            /\ c.exc \in {"none", "UpdateFailed", "ConfigEntryNotReady"}
            /\ Cardinality(GetIdx(c)) <= 2
            /\ Cardinality(PostIdx(c)) <= 2
            /\ Cardinality(GetIdx(c)) = 2 =>
                /\ c.log[FirstGet(c)].reply = "401"
                /\ c.log[Len(c.log)].op = "GET"
            /\ \A i \in PostIdx(c) :
                i = 1 \/ (c.log[i - 1].op = "GET" /\ c.log[i - 1].reply = "401")

\* C16 witness: a call entered without a token whose backend answers 401 to
\* every request: one exchange, a request, one more exchange, one retry,
\* and the call ends with UpdateFailed
C16_Witness ==
    /\ phase = "caller" /\ probe.fn = "called"
    /\ \A i \in 1..MaxAnswers : probe.script.resp[i] = 401
    /\ last.exc = "UpdateFailed"
    /\ Len(last.calls[1].log) = 4

\* the streams of the probe that have a name which matches no directory key
Unmatched ==
    {i \in 1..Len(probe.streams) :
        /\ probe.streams[i].stream_name # <<>>
        /\ ChannelOf(probe.streams[i]) = ""}

\* the programme elements of channel k in the probe's guide that contain the
\* probe's instant
TickCurrentIdx(k) ==
    {i \in 1..Len(probe.doc.programmes) :
        /\ probe.doc.programmes[i].channel = k
        /\ probe.doc.programmes[i].start.kind = "ok"
        /\ probe.doc.programmes[i].stop.kind = "ok"
        /\ Instant(probe.doc.programmes[i].start) <= probe.now
        /\ probe.now < Instant(probe.doc.programmes[i].stop)}

\* the output has a record for stream i of the probe
Published(i) == ~data.is_none /\ DictHas(data.map, probe.streams[i].channel_id)

Record(i) == DictGet(data.map, probe.streams[i].channel_id)

\* the record of stream i carries no channel name, logo or program
Bare(i) ==
    /\ Record(i).stream_name = probe.streams[i].stream_name
    /\ Record(i).xmltv_id = ""
    /\ Record(i).channel_name = <<>>
    /\ Record(i).logo_url = ""
    /\ Record(i).program = NoProgram

\* the record of stream i carries the channel its name matches and that
\* channel's current program
Enriched(i) ==
    LET d == _get_channel_details_from_stream_name(channel_map,
                                                   probe.streams[i].stream_name)
    IN  /\ Record(i).stream_name = probe.streams[i].stream_name
        /\ Record(i).xmltv_id = d.id
        /\ Record(i).channel_name = d.name
        /\ Record(i).logo_url = d.logo_url
        /\ IF TickCurrentIdx(d.id) = {}
           THEN Record(i).program = NoProgram
           ELSE Record(i).program.title = MinOf(TickCurrentIdx(d.id))

\* C17 as stated: in a tick of the guide-sourced coordinator, a stream whose
\* name matches no directory key does not fail the tick and has a record
\* under its session id without channel name, logo or program, and every
\* stream of the tick whose name matches a key has its enriched record.
C17_AsStated ==
    (Ticked /\ variant = "init") =>
        \A i \in Unmatched :
            /\ last.exc = "none"
            /\ Published(i) /\ Bare(i)
            /\ \A j \in Resolved : Published(j) /\ Enriched(j)

\* C17 for the ticks whose guide document parsed: the same statement holds
C17_WhenGuideParsed ==
    (Ticked /\ variant = "init" /\ last.guide = "parsed") =>
        \A i \in Unmatched :
            /\ last.exc = "none"
            /\ Published(i) /\ Bare(i)
            /\ \A j \in Resolved : Published(j) /\ Enriched(j)

\* a tick with an unmatched and a matched stream, the guide parsed, the
\* matched stream with a program
C17_Case ==
    /\ Ticked /\ variant = "init" /\ last.guide = "parsed"
    /\ Unmatched # {}
    /\ \E j \in Resolved : Published(j) /\ Record(j).program # NoProgram

\* programme element m of the probe's guide has a malformed start or stop
MalformedAt(m) ==
    \/ probe.doc.programmes[m].start.kind = "malformed"
    \/ probe.doc.programmes[m].stop.kind = "malformed"

\* the pairs <<m, j>> of a malformed programme element and a later element
\* of the same channel that contains the probe's instant
SkippedThenCurrent ==
    {<<m, j>> \in (1..Len(probe.doc.programmes)) \X (1..Len(probe.doc.programmes)) :
        /\ m < j
        /\ MalformedAt(m)
        /\ probe.doc.programmes[m].channel = probe.doc.programmes[j].channel
        /\ j \in TickCurrentIdx(probe.doc.programmes[j].channel)}

\* C18: a tick whose guide holds a programme element with a malformed start
\* or stop and, later, an element of the same channel that contains the
\* instant does not fail, and every stream of that channel is published with
\* the channel's first current programme: the later element, unless a
\* well-formed current element precedes it.
C18_MalformedSkipped ==
    Ticked =>
        \A p \in SkippedThenCurrent :
            LET k == probe.doc.programmes[p[2]].channel
            IN  /\ last.exc = "none"
                /\ \A i \in Resolved :
                    ChannelOf(probe.streams[i]) = k =>
                        /\ Published(i)
                        /\ Record(i).program.title = MinOf(TickCurrentIdx(k))
                        /\ (\A c \in TickCurrentIdx(k) : c >= p[2]) =>
                                Record(i).program.title = p[2]

\* C18 witness: the guide's first element for channel c1 is malformed, its
\* second contains the instant, and the stream of c1 is published with the
\* second as its program
C18_Witness ==
    /\ Ticked /\ last.exc = "none"
    /\ <<1, 2>> \in SkippedThenCurrent
    /\ \E i \in Resolved :
        /\ ChannelOf(probe.streams[i]) = "c1"
        /\ Published(i)
        /\ Record(i).program.title = 2

\* the directory build of the last setup failed: its source was not
\* fetched, not parsed, not a list, or holds no entry the directory can take
SetupBuildFailed ==
    /\ last.op = "setup"
    /\ \/ last.source.kind \in {"not_fetched", "malformed", "not_a_list"}
       \/ last.source.valid = 0

\* the last setup made no tick: its only _api_request call is the build's
SetupRanNoTick ==
    /\ Len(last.calls) = 1
    /\ last.calls[1].url # "/proxy/ts/status"
    /\ last.status = "none"
    /\ data = NoneData

\* C19 as stated: in a setup the directory build's call comes before any
\* call of the first tick, and a setup whose directory build failed (fetch
\* failure, malformed document, zero entries) stops at the build with
\* ConfigEntryNotReady: no tick is run and the coordinator does not become
\* ready.
C19_AsStated ==
    /\ (last.op = "setup" /\ last.status # "none") =>
            /\ last.calls[1].url # "/proxy/ts/status"
            /\ last.calls[1].exc = "none"
    /\ SetupBuildFailed =>
            /\ last.step = "populate"
            /\ last.exc = "ConfigEntryNotReady"
            /\ phase = "not_ready"
            /\ SetupRanNoTick

\* C19 for the guide-sourced coordinator alone (__init__.py:22-32)
C19_GuideSourced ==
    variant = "init" => C19_AsStated

\* a guide-sourced setup stopped by a failed directory build
C19_Case ==
    /\ variant = "init" /\ SetupBuildFailed /\ phase = "not_ready"

\* a remove event for an entity, were the manager to emit one
RemoveEvent(id) == [kind |-> "remove", id |-> id]

\* C20 as stated: the listener call after a completed tick emits a create
\* event for every id of the tick that was not known and a remove event for
\* every known id the tick no longer holds, and leaves the known ids equal
\* to the tick's ids.
C20_AsStated ==
    [][(phase = "listening" /\ probe'.fn = "updated") =>
        /\ \A id \in CurrentIds(data') \ probe.known : AddEvent(id) \in probe'.events
        /\ \A id \in probe.known \ CurrentIds(data') :
                RemoveEvent(id) \in probe'.events
        /\ probe'.known = CurrentIds(data')]_vars

\* the create half of C20: exactly the ids that newly appeared are added
C20_CreatesNew ==
    [][(phase = "listening" /\ probe'.fn = "updated") =>
        /\ probe'.events = {AddEvent(id) : id \in CurrentIds(data') \ probe.known}
        /\ probe'.known = probe.known \cup CurrentIds(data')]_vars

\* a known id is no longer among the ids of the coordinator's data
C20_Case ==
    /\ phase = "listening" /\ probe.fn = "updated"
    /\ probe.known \ CurrentIds(data) # {}

\* the ids for which the host was handed an entity
EntityIds == {id \in DOMAIN probe.entities : probe.entities[id] > 0}

\* the state half of C21: the host holds at most one entity per session id,
\* and every id that has an entity is a known id.
C21_OneEntityPerId ==
    phase = "listening" =>
        /\ \A id \in DOMAIN probe.entities : probe.entities[id] <= 1
        /\ EntityIds \subseteq probe.known

\* the step half of C21: a listener call never takes an id out of the known
\* ids.
C21_KnownOnlyGrows ==
    [][phase = "listening" => probe.known \subseteq probe'.known]_vars

C22_RetryCarriesNewToken ==
    (phase = "caller" /\ probe.fn = "called") =>
        \A c \in LastCalls :
            \A i \in RetryIdx(c) :
                /\ c.log[FirstGet(c)].reply = "401"
                /\ i - 1 \in ReauthIdx(c)
                /\ c.log[i - 1].access # NoToken
                /\ c.log[i].bearer = c.log[i - 1].access
                /\ c.log[i - 1].access # c.log[FirstGet(c)].bearer
                        => c.log[i].bearer # c.log[FirstGet(c)].bearer
                /\ access_token = c.log[i - 1].access

\* C22 witness: a call entered with token 1 is answered 401, the exchange
\* hands out token 2, the retry carries token 2 and is answered 200, and
\* token 2 is stored
C22_Witness ==
    /\ phase = "caller" /\ probe.fn = "called"
    /\ last.exc = "none"
    /\ \E c \in LastCalls :
        /\ Rejected(c)
        /\ c.log[FirstGet(c)].bearer = 1
        /\ \E i \in RetryIdx(c) : c.log[i].bearer = 2 /\ c.log[i].reply = "200"
    /\ access_token = 2

\* C23: a regular tick, whether it returns, fails or degrades, leaves the
\* channel directory as it was, so that between two directory builds the
\* directory stays the map the first of them produced.
C23_TickKeepsDirectory ==
    [][last'.op = "tick" =>
        /\ channel_map' = channel_map
        /\ channel_details' = channel_details]_vars

\* C23 witness: a tick of a coordinator whose directory holds entries was
\* handed sessions and failed at the guide call, after which the directory
\* still holds entries
C23_Witness ==
    /\ last.op = "tick"
    /\ last.status = "sessions"
    /\ last.exc = "UpdateFailed"
    /\ Dir # <<>>

\* the network operation at <<call, position>> of the handler whose record
\* is l
EventAt(l, e) == l.calls[e[1]].log[e[2]]

\* e comes before f in the handler
Before(e, f) == e[1] < f[1] \/ (e[1] = f[1] /\ e[2] < f[2])

\* the credential exchanges of the handler that handed out no token
FailedExchanges(l) == {e \in Exchanges(l) : EventAt(l, e).access = NoToken}

\* the exchanges of the handler that handed out a token before exchange e
HandedOutBefore(l, e) ==
    {f \in Exchanges(l) : Before(f, e) /\ EventAt(l, f).access # NoToken}

\* the token stored when exchange e of the handler began: the token of the
\* last exchange before it, or the token the handler was entered with
TokenBefore(l, e, entered) ==
    IF HandedOutBefore(l, e) = {} THEN entered
    ELSE EventAt(l, CHOOSE f \in HandedOutBefore(l, e) :
                        \A g \in HandedOutBefore(l, e) : g = f \/ Before(g, f)).access

\* the handler ended in an exchange answered 200 without an access token
LacksAccess(l) == \E e \in FailedExchanges(l) : EventAt(l, e).reply = "200"

\* C24: a credential exchange that hands out no token ends its gateway call
\* with ConfigEntryNotReady and stores no new token: after a transport or HTTP-status error
\* the stored token is the one stored when the exchange began, after a 200
\* without an access token no token is stored; and the handler that follows
\* one ended by such a 200 starts with a credential exchange, before any
\* request.
C24_FailedExchangeStoresNothing ==
    [][/\ \A e \in FailedExchanges(last') :
            /\ last'.calls[e[1]].exc = "ConfigEntryNotReady"
            /\ EventAt(last', e).reply \in {"client_error", "http_error"}
                    => access_token' = TokenBefore(last', e, access_token)
            /\ EventAt(last', e).reply = "200" => access_token' = NoToken
       /\ (LacksAccess(last) /\ last'.calls # <<>>) =>
            /\ access_token = NoToken
            /\ last'.calls[1].log[1].op = "POST"]_vars

\* C24 witness: a tick entered with a token whose request was answered 401
\* and whose credential exchange was answered 200 without an access token:
\* no token is stored afterwards
C24_Witness ==
    /\ last.op = "tick"
    /\ \E c \in LastCalls : Rejected(c) /\ c.log[FirstGet(c)].bearer # NoToken
    /\ LacksAccess(last)
    /\ access_token = NoToken

\* a tick that follows a handler ended by an exchange without an access
\* token and starts with a credential exchange that hands out a token
C24_Case ==
    /\ last.op = "tick"
    /\ last.calls[1].log[1].op = "POST"
    /\ last.calls[1].log[1].access # NoToken

====
